---- MODULE Spec2Model ----
(***************************************************************************)
(* Model of the payment simulator (payment-service/app.js) and of its      *)
(* traffic generator (load-generator.js).                                  *)
(*                                                                         *)
(* GenSpec is the traffic generator: the interval callback of              *)
(* runLoadGenerator, split at its await points, and the pool               *)
(* successfulPaymentIds that its invocations share.                        *)
(* SvcSpec is the service: the two middlewares, the route handlers and the *)
(* setTimeout callbacks that answer a request.                             *)
(* GenTimersSpec adds the generator's clock and its once-per-minute timer, *)
(* GenHealthSpec the once-per-minute timer alone,                          *)
(* SvcLifeSpec the SIGTERM that ends the service, SvcFairSpec the fairness *)
(* of the event loop; ComponentsSpec runs generator and service each on    *)
(* its own and DelaySpec puts every draw through the delay computations.   *)
(***************************************************************************)
EXTENDS Integers, Sequences, FiniteSets, Bags, TLC

VARIABLES
    \* ---- load generator ----
    envRunForever,          \* process.env.RUN_FOREVER
    mainPc,                 \* position of runLoadGenerator
    loadInterval,           \* the main-loop timer: "unset", "active", "cleared"
    pastEnd,                \* Date.now() > endTime
    successfulPaymentIds,   \* the PaymentIdPool
    ticks,                  \* the suspended invocations of the main-loop callback (a bag)
    healthCalls,            \* calls of the once-per-minute timer in flight
    issuedIds,              \* payment ids the service has returned with a 2xx so far
    appended,               \* history: every id pushed to the pool, in push order
    spliceCount,            \* history: number of splice() calls made
    \* ---- payment service ----
    reqs,                   \* the requests received, in arrival order
    uuidCount,              \* uuidv4() calls made so far
    accountCount,           \* faker.finance.account() calls made so far
    serverEvents,           \* the events logged outside any request, in order
    \* ---- the delay computations, over the draws of Math.random() ----
    drawsTried,             \* the draws 0 .. drawsTried - 1 (over DrawDen) were tried
    delayRange              \* per route, the delays those draws gave

genVars == <<envRunForever, mainPc, loadInterval, pastEnd, successfulPaymentIds,
             ticks, healthCalls, issuedIds, appended, spliceCount>>
svcVars == <<reqs, uuidCount, accountCount, serverEvents, drawsTried, delayRange>>
vars == <<genVars, svcVars>>

----------------------------------------------------------------------------
(* Bounds of the model *)

\* the pool's capacity (line 185)
PoolCap == 100

\* callback invocations of the main loop that may overlap
MaxInFlight == 2
\* splice() calls over a run
MaxSplices == 1
\* once-per-minute health calls in flight
MaxHealthCalls == 1
\* 2xx payment responses whose id is dropped (fallback payments) over a run
MaxDiscarded == 1
\* every request type, overlapping invocations and evictions are explored
\* while the pool is within EdgeMargin entries of empty or of full; in
\* between, the pool is filled by payment ticks, one at a time
EdgeMargin == 1
\* 2xx payment responses over a run: enough to fill the pool and trim it
MaxPayments == PoolCap + EdgeMargin
\* Math.random() is drawn as u / RandDen, u \in 0 .. RandDen - 1
RandDen == 100

\* The draws of Math.random() that are tried for the request type, the pool
\* index and the eviction coin: both sides of every threshold, and the two
\* ends of the pool.
TypeDraws == {0, 60, 80, 95}
IndexDraws == {0, 99}
CoinDraws == {50, 51}

----------------------------------------------------------------------------
(* Load generator: helpers *)

\* Math.random() < num / den, for the draw u / RandDen
RandomLt(u, num, den) == u * den < num * RandDen

\* Math.random() > num / den
RandomGt(u, num, den) == u * den > num * RandDen

\* Math.floor(Math.random() * (max - min + 1)) + min
getRandomInt(u, min, max) == ((u * (max - min + 1)) \div RandDen) + min

\* CONFIG.runForever
runForever == (envRunForever = "true") \/ TRUE

\* (mutant of Shift) pop(): drops the last element
ShiftDropsNewest(arr) == SubSeq(arr, 1, Len(arr) - 1)

\* Array.prototype.shift: drops the first element
Shift(arr) == Tail(arr)

\* Array.prototype.splice(index, 1), index >= 0, zero-based
Splice(arr, index) ==
    IF index < Len(arr)
    THEN [i \in 1 .. Len(arr) - 1 |-> IF i <= index THEN arr[i] ELSE arr[i + 1]]
    ELSE arr

\* (mutant of PushAndTrim) the trim is off by one: length > PoolCap + 1
PushAndTrimLate(pool, paymentId) ==
    LET pushed == Append(pool, paymentId)
    IN  IF Len(pushed) > PoolCap + 1 THEN Shift(pushed) ELSE pushed

\* lines 183-187: push, then keep only the most recent PoolCap ids
PushAndTrim(pool, paymentId) ==
    LET pushed == Append(pool, paymentId)
    IN  IF Len(pushed) > PoolCap THEN Shift(pushed) ELSE pushed

\* what makePaymentRequest returns for a response: response.data.payment_id
\* for a 2xx, null (0) when axios throws (a non-2xx status, a transport error)
PaymentResponses == {"200", "400", "500", "504", "neterr"}
NullId == 0

\* (mutant of makePaymentRequestResult) the catch returns the payment_id of
\* the error response's body, which the service sets on a 400, 500 and 504
makePaymentRequestResultOfError(response, id) ==
    IF response = "neterr" THEN NullId ELSE id

makePaymentRequestResult(response, id) == IF response = "200" THEN id ELSE NullId

\* the pool is within EdgeMargin entries of empty or of full
AtEdge(len) == len <= EdgeMargin \/ len >= PoolCap - EdgeMargin

\* how many invocations may be suspended at once when the pool has len entries
InFlightAt(len) == IF AtEdge(len) THEN MaxInFlight ELSE 1

\* the request-type draws tried when the pool has len entries
TypeDrawsAt(len) == IF AtEdge(len) THEN TypeDraws ELSE {r \in TypeDraws : r = 0}

\* the eviction coins tried when the pool has len entries
CoinDrawsAt(len) == IF AtEdge(len) THEN CoinDraws ELSE {c \in CoinDraws : c * 2 <= RandDen}

\* (mutant of TickBranch) the first threshold is inclusive: requestType <= 0.6
TickBranchInclusive(requestType, pool) ==
    IF ~RandomGt(requestType, 6, 10) THEN "payment"
    ELSE IF RandomLt(requestType, 8, 10)
         THEN (IF Len(pool) > 0 THEN "status" ELSE "statusFallback")
    ELSE IF RandomLt(requestType, 95, 100)
         THEN (IF Len(pool) > 0 THEN "refund" ELSE "refundFallback")
    ELSE "health"

\* the branch of lines 179-214 taken for the draw requestType and the pool
TickBranch(requestType, pool) ==
    IF RandomLt(requestType, 6, 10) THEN "payment"
    ELSE IF RandomLt(requestType, 8, 10)
         THEN (IF Len(pool) > 0 THEN "status" ELSE "statusFallback")
    ELSE IF RandomLt(requestType, 95, 100)
         THEN (IF Len(pool) > 0 THEN "refund" ELSE "refundFallback")
    ELSE "health"

\* the call a suspended invocation is waiting for
RequestOf(pc) ==
    CASE pc \in {"payment", "statusFallback", "refundFallback"} -> "makePaymentRequest"
      [] pc = "status" -> "getPaymentStatus"
      [] pc = "refund" -> "makeRefundRequest"
      [] pc = "health" -> "getHealthCheck"

\* the axios calls a request function makes over one call of it: one each
\* (lines 57, 83, 101, 121, 139), inside a try whose catch logs and returns
AxiosCalls(fn) ==
    CASE fn = "makePaymentRequest" -> <<"POST /api/payments">>
      [] fn = "getPaymentStatus" -> <<"GET /api/payments/:paymentId">>
      [] fn = "makeRefundRequest" -> <<"POST /api/refunds">>
      [] fn = "getHealthCheck" -> <<"GET /health">>
      [] fn = "getServiceInfo" -> <<"GET /">>

\* the HTTP requests an invocation of the main-loop callback issues in the
\* branch it takes: each branch awaits one request function once
CallsOf(branch) == AxiosCalls(RequestOf(branch))

----------------------------------------------------------------------------
(* Load generator: actions *)

GenInit ==
    /\ envRunForever \in {"true", "false"}
    /\ mainPc = "serviceInfo"
    /\ loadInterval = "unset"
    /\ pastEnd = FALSE
    /\ successfulPaymentIds = <<>>
    /\ ticks = EmptyBag
    /\ healthCalls = 0
    /\ issuedIds = 0
    /\ appended = <<>>
    /\ spliceCount = 0

\* line 163: await getServiceInfo() returns, whatever the response
ServiceInfoReturns ==
    /\ mainPc = "serviceInfo"
    /\ mainPc' = "healthCheck"
    /\ UNCHANGED <<svcVars, envRunForever, loadInterval, pastEnd, successfulPaymentIds, ticks,
                   healthCalls, issuedIds, appended, spliceCount>>

\* lines 164-221: await getHealthCheck() returns and both intervals are set
StartIntervals ==
    /\ mainPc = "healthCheck"
    /\ mainPc' = "running"
    /\ loadInterval' = "active"
    /\ UNCHANGED <<svcVars, envRunForever, pastEnd, successfulPaymentIds, ticks,
                   healthCalls, issuedIds, appended, spliceCount>>

\* wall-clock time passes endTime
ClockPassesEnd ==
    /\ ~pastEnd
    /\ pastEnd' = TRUE
    /\ UNCHANGED <<svcVars, envRunForever, mainPc, loadInterval, successfulPaymentIds, ticks,
                   healthCalls, issuedIds, appended, spliceCount>>

\* lines 170-214 up to the await: the main-loop timer fires and a new
\* invocation of the callback decides what to request
TickFires ==
    /\ loadInterval = "active"
    /\ IF ~runForever /\ pastEnd
       THEN /\ loadInterval' = "cleared"
            /\ UNCHANGED ticks
       ELSE /\ UNCHANGED loadInterval
            /\ BagCardinality(ticks) < InFlightAt(Len(successfulPaymentIds))
            /\ \E requestType \in TypeDrawsAt(Len(successfulPaymentIds)), u \in IndexDraws :
                 LET branch == TickBranch(requestType, successfulPaymentIds)
                     randomIndex ==
                         IF branch \in {"status", "refund"}
                         THEN getRandomInt(u, 0, Len(successfulPaymentIds) - 1)
                         ELSE 0
                     tick == [pc |-> branch,
                              requestType |-> requestType,
                              randomIndex |-> randomIndex,
                              paymentId |-> IF branch \in {"status", "refund"}
                                            THEN successfulPaymentIds[randomIndex + 1]
                                            ELSE NullId,
                              sent |-> Len(CallsOf(branch))]
                 IN  ticks' = ticks (+) SetToBag({tick})
    /\ UNCHANGED <<svcVars, envRunForever, mainPc, pastEnd, successfulPaymentIds,
                   healthCalls, issuedIds, appended, spliceCount>>

\* (mutant of PaymentReturns) a payment that failed is sent again
PaymentReturnsRetrying(t) ==
    /\ t.pc = "payment"
    /\ \E response \in PaymentResponses :
         LET paymentId == makePaymentRequestResult(response, issuedIds + 1)
         IN  /\ response = "200" => issuedIds < MaxPayments
             /\ issuedIds' = IF response = "200" THEN issuedIds + 1 ELSE issuedIds
             /\ IF paymentId # NullId
                THEN /\ successfulPaymentIds' = PushAndTrim(successfulPaymentIds, paymentId)
                     /\ appended' = Append(appended, paymentId)
                     /\ ticks' = ticks (-) SetToBag({t})
                ELSE /\ UNCHANGED <<successfulPaymentIds, appended>>
                     /\ ticks' = (ticks (-) SetToBag({t}))
                                    (+) SetToBag({[t EXCEPT !.sent = @ + 1]})
    /\ UNCHANGED <<svcVars, envRunForever, mainPc, loadInterval, pastEnd, healthCalls, spliceCount>>

\* lines 181-188: makePaymentRequest returns to a payment tick
PaymentReturns(t) ==
    /\ t.pc = "payment"
    /\ \E response \in PaymentResponses :
         LET paymentId == makePaymentRequestResult(response, issuedIds + 1)
         IN  /\ response = "200" => issuedIds < MaxPayments
             /\ issuedIds' = IF response = "200" THEN issuedIds + 1 ELSE issuedIds
             /\ IF paymentId # NullId
                THEN /\ successfulPaymentIds' = PushAndTrim(successfulPaymentIds, paymentId)
                     /\ appended' = Append(appended, paymentId)
                ELSE UNCHANGED <<successfulPaymentIds, appended>>
    /\ ticks' = ticks (-) SetToBag({t})
    /\ UNCHANGED <<svcVars, envRunForever, mainPc, loadInterval, pastEnd, healthCalls, spliceCount>>

\* lines 196 and 209: makePaymentRequest returns to a tick that fell back to
\* a payment because the pool was empty; the returned id is not used
FallbackPaymentReturns(t) ==
    /\ t.pc \in {"statusFallback", "refundFallback"}
    /\ \E response \in PaymentResponses :
         /\ response = "200" => /\ issuedIds < MaxPayments
                                /\ issuedIds - Len(appended) < MaxDiscarded
         /\ issuedIds' = IF response = "200" THEN issuedIds + 1 ELSE issuedIds
    /\ ticks' = ticks (-) SetToBag({t})
    /\ UNCHANGED <<svcVars, envRunForever, mainPc, loadInterval, pastEnd, successfulPaymentIds,
                   healthCalls, appended, spliceCount>>

\* (mutant of StatusReturns) a lookup answered 404 drops its id from the pool
StatusReturnsEvicting(t) ==
    /\ t.pc = "status"
    /\ \E response \in {"200", "404"} :
         successfulPaymentIds' = IF response = "404"
                                 THEN Splice(successfulPaymentIds, t.randomIndex)
                                 ELSE successfulPaymentIds
    /\ ticks' = ticks (-) SetToBag({t})
    /\ UNCHANGED <<svcVars, envRunForever, mainPc, loadInterval, pastEnd,
                   healthCalls, issuedIds, appended, spliceCount>>

\* line 193: getPaymentStatus returns
StatusReturns(t) ==
    /\ t.pc = "status"
    /\ ticks' = ticks (-) SetToBag({t})
    /\ UNCHANGED <<svcVars, envRunForever, mainPc, loadInterval, pastEnd, successfulPaymentIds,
                   healthCalls, issuedIds, appended, spliceCount>>

\* lines 202-206: makeRefundRequest returns, whatever the response, and the
\* coin decides whether to splice the pool at the index chosen before the call
RefundReturns(t) ==
    /\ t.pc = "refund"
    /\ \E coin \in CoinDrawsAt(Len(successfulPaymentIds)) :
         IF RandomGt(coin, 5, 10)
         THEN /\ spliceCount < MaxSplices
              /\ successfulPaymentIds' = Splice(successfulPaymentIds, t.randomIndex)
              /\ spliceCount' = spliceCount + 1
         ELSE UNCHANGED <<successfulPaymentIds, spliceCount>>
    /\ ticks' = ticks (-) SetToBag({t})
    /\ UNCHANGED <<svcVars, envRunForever, mainPc, loadInterval, pastEnd,
                   healthCalls, issuedIds, appended>>

\* line 213: getHealthCheck returns to a health tick
HealthReturns(t) ==
    /\ t.pc = "health"
    /\ ticks' = ticks (-) SetToBag({t})
    /\ UNCHANGED <<svcVars, envRunForever, mainPc, loadInterval, pastEnd, successfulPaymentIds,
                   healthCalls, issuedIds, appended, spliceCount>>

\* lines 219-221: the once-per-minute timer fires; its handle is not kept
PeriodicHealthFires ==
    /\ mainPc = "running"
    /\ healthCalls < MaxHealthCalls
    /\ healthCalls' = healthCalls + 1
    /\ UNCHANGED <<svcVars, envRunForever, mainPc, loadInterval, pastEnd, successfulPaymentIds,
                   ticks, issuedIds, appended, spliceCount>>

\* line 220: the periodic getHealthCheck returns
PeriodicHealthReturns ==
    /\ healthCalls > 0
    /\ healthCalls' = healthCalls - 1
    /\ UNCHANGED <<svcVars, envRunForever, mainPc, loadInterval, pastEnd, successfulPaymentIds,
                   ticks, issuedIds, appended, spliceCount>>

GenNext ==
    \/ ServiceInfoReturns
    \/ StartIntervals
    \/ TickFires
    \/ \E t \in BagToSet(ticks) : PaymentReturns(t)
    \/ \E t \in BagToSet(ticks) : FallbackPaymentReturns(t)
    \/ \E t \in BagToSet(ticks) : StatusReturns(t)
    \/ \E t \in BagToSet(ticks) : RefundReturns(t)
    \/ \E t \in BagToSet(ticks) : HealthReturns(t)

----------------------------------------------------------------------------
(* Load generator: properties *)

\* C1: in every reachable state (the push and the trim of lines 183-187 are
\* one step of the callback) the pool holds at most 100 entries.
C1_PoolBounded == Len(successfulPaymentIds) <= 100

\* C1 witness: the pool is full after more than 100 pushes, i.e. it was trimmed
C1_Witness ==
    /\ Len(successfulPaymentIds) = 100
    /\ Len(appended) > 100

\* the last n elements of seq
LastN(seq, n) == SubSeq(seq, Len(seq) - n + 1, Len(seq))

\* C2: when more than 100 ids were pushed and no refund has evicted, the
\* pool is exactly the last 100 pushed ids in push order.
C2_Fifo ==
    (spliceCount = 0 /\ Len(appended) > 100)
        => successfulPaymentIds = LastN(appended, 100)

\* C2 witness: 101 pushes, no eviction: the first pushed id is gone, the
\* second has become the oldest and the 101st the newest
C2_Witness ==
    /\ spliceCount = 0
    /\ Len(appended) = 101
    /\ successfulPaymentIds[1] = appended[2]
    /\ successfulPaymentIds[100] = appended[101]

\* C8 (as claimed): every payment call that got a 2xx has had its id pushed
\* to the pool, the fallback payments of status and refund ticks included.
\* The code drops the id a fallback payment returns (lines 196, 209).
C8_EverySuccessAppended == issuedIds = Len(appended)

\* the invocations that were started by the step
Started == {t \in BagToSet(ticks') : CopiesIn(t, ticks') > CopiesIn(t, ticks)}

\* the request a tick with draw r / RandDen must issue when the pool is pool
C9_Decision(t, pool) ==
    LET r == t.requestType
        known == \E i \in 1 .. Len(pool) : pool[i] = t.paymentId
    IN  /\ r * 10 < 6 * RandDen => RequestOf(t.pc) = "makePaymentRequest"
        /\ (r * 10 >= 6 * RandDen /\ r * 10 < 8 * RandDen) =>
              IF Len(pool) = 0
              THEN RequestOf(t.pc) = "makePaymentRequest"
              ELSE RequestOf(t.pc) = "getPaymentStatus" /\ known
        /\ (r * 10 >= 8 * RandDen /\ r * 100 < 95 * RandDen) =>
              IF Len(pool) = 0
              THEN RequestOf(t.pc) = "makePaymentRequest"
              ELSE RequestOf(t.pc) = "makeRefundRequest" /\ known
        /\ r * 100 >= 95 * RandDen => RequestOf(t.pc) = "getHealthCheck"
        /\ RequestOf(t.pc) \in {"getPaymentStatus", "makeRefundRequest"} => known

\* C9: a tick issues exactly one request, chosen by its draw with the
\* thresholds 0.6, 0.8 and 0.95; with an empty pool a status or refund tick
\* issues a payment instead, so a status lookup or refund always names an id
\* that is in the pool when the tick chooses it.
C9_TickChoice ==
    [][ticks' # ticks /\ BagCardinality(ticks') >= BagCardinality(ticks)
         => /\ BagCardinality(ticks') = BagCardinality(ticks) + 1
            /\ \A t \in Started : C9_Decision(t, successfulPaymentIds)]_vars

\* C9 witness: a status tick fell back to a payment on an empty pool while a
\* refund tick is waiting for the refund of an id it took from the pool
C9_Witness ==
    /\ \E t \in BagToSet(ticks) : t.pc = "statusFallback"
    /\ \E t \in BagToSet(ticks) : t.pc = "refund" /\ t.paymentId # NullId

\* C10 (as claimed): when a refund tick returns and removes an entry, the
\* entry removed is the id the refund was issued for.  The code removes
\* whatever is at the index chosen before the call (line 205).
C10_EvictsRefundedId ==
    [][\A t \in BagToSet(ticks) :
          (/\ t.pc = "refund"
           /\ ticks' = ticks (-) SetToBag({t})
           /\ successfulPaymentIds' # successfulPaymentIds)
          => \E i \in 1 .. Len(successfulPaymentIds) :
                /\ successfulPaymentIds[i] = t.paymentId
                /\ successfulPaymentIds' = Splice(successfulPaymentIds, i - 1)]_vars

\* the generator is in fixed-duration mode and the duration has elapsed
DurationElapsed == envRunForever # "true" /\ pastEnd

\* the step starts no invocation of the main-loop callback's request
NoNewTick == BagCardinality(ticks') <= BagCardinality(ticks)

\* the step starts no call of the once-per-minute timer
NoNewPeriodicHealth == healthCalls' <= healthCalls

\* C11 (as claimed): once the configured duration has elapsed in
\* fixed-duration mode, neither the main-loop timer nor the once-per-minute
\* health timer issues a new request; calls in flight may still return.
\* The code keeps no handle of the second timer (line 219) and never clears
\* it, and its stop branch (lines 171-175) cannot be taken.
C11_BothTimersCancelled ==
    [][DurationElapsed => (NoNewTick /\ NoNewPeriodicHealth)]_vars

\* C12 (as claimed): with RUN_FOREVER not 'true' the main loop issues no
\* request after the duration has elapsed; with RUN_FOREVER 'true' the
\* timer is never cleared.
\* The code computes runForever as (RUN_FOREVER === 'true' || true), line 9.
C12_RunModeFollowsConfig ==
    [][/\ DurationElapsed => NoNewTick
       /\ envRunForever = "true" => loadInterval' # "cleared"]_vars

\* the suspended invocations that may still mutate the pool when their call
\* returns: a payment pushes and trims, a refund may splice
YetToMutate == {t \in BagToSet(ticks) : t.pc \in {"payment", "refund"}}

\* C19 (as claimed): an invocation of the main-loop callback reads the pool
\* and decides only when no earlier invocation is still suspended with a
\* pool mutation to come.  setInterval fires the callback every interval
\* whether or not the earlier invocation's await has returned (line 170).
C19_TicksDoNotOverlap ==
    [][~NoNewTick => YetToMutate = {}]_vars

\* the entries of the pool are among the ids 1 .. issued that payment calls
\* returned with a 2xx, none of them null and each there once: they are in
\* the order the calls returned, from above NullId up to issued at most
AllReturned(pool, issued) ==
    \/ pool = <<>>
    \/ /\ pool[1] > NullId
       /\ pool[Len(pool)] <= issued
       /\ \A i \in 1 .. Len(pool) - 1 : pool[i] < pool[i + 1]

\* every entry of pool2 is an entry of pool1, at its place or one further
NothingAdded(pool1, pool2) ==
    \/ pool2 = pool1
    \/ /\ Len(pool2) < Len(pool1)
       /\ \A i \in 1 .. Len(pool2) :
             pool2[i] = pool1[i] \/ pool2[i] = pool1[i + 1]

\* pool2 is pool1 less some entries and then the id just returned, which is
\* not null, at its end
ReturnedIdAdded(pool1, pool2, id) ==
    /\ pool2 # <<>>
    /\ pool2[Len(pool2)] = id
    /\ id # NullId
    /\ \/ SubSeq(pool2, 1, Len(pool2) - 1) = pool1
       \/ NothingAdded(pool1, SubSeq(pool2, 1, Len(pool2) - 1))

\* C21: every entry of the pool is the payment_id of a payment call that
\* was answered 2xx, there once, and no entry is null: so it is at the
\* start, and a step either adds no entry or adds, at the end, the id of
\* the payment call answered 2xx in that step, an id no earlier call
\* returned; a step in which no payment call is answered 2xx (a 400, 500,
\* 504 or transport error among them) adds no entry.
C21_PoolHoldsReturnedIds ==
    /\ AllReturned(successfulPaymentIds, issuedIds)
    /\ [][/\ issuedIds' >= issuedIds
          /\ \/ NothingAdded(successfulPaymentIds, successfulPaymentIds')
             \/ /\ issuedIds' > issuedIds
                /\ ReturnedIdAdded(successfulPaymentIds, successfulPaymentIds',
                                   issuedIds')]_vars

\* C21 witness: the pool holds ids while a payment that succeeded has no
\* entry in it and another payment call is outstanding
C21_Witness ==
    /\ Len(successfulPaymentIds) >= 1
    /\ issuedIds > Len(successfulPaymentIds)
    /\ \E t \in BagToSet(ticks) : t.pc = "payment"

\* the invocations of the main-loop callback that end in this step, among
\* those that took one of the branches pcs
Ended(pcs) ==
    {t \in BagToSet(ticks) : t.pc \in pcs /\ ticks' = ticks (-) SetToBag({t})}

\* the once-per-minute timer fires or its health call returns
PeriodicHealthStep == healthCalls' # healthCalls

\* lines 183-187 as seen from outside: the id is pushed, and the oldest
\* entry leaves when the pool was full (the FIFO trim)
Pushed(pool1, pool2, id) ==
    \/ pool2 = Append(pool1, id)
    \/ Len(pool1) = PoolCap /\ pool2 = Append(Tail(pool1), id)

\* C22: a step that changes the pool is not the end of a status-lookup tick
\* (with the pool empty or not) or of a health-probe tick, and not a step of
\* the once-per-minute health timer; it is the end of a payment tick, which
\* pushes the returned id and trims the oldest entry of a full pool, or the
\* end of a refund tick, which removes the entry at the index it drew.
C22_PoolFrame ==
    [][successfulPaymentIds' # successfulPaymentIds =>
         /\ Ended({"status", "statusFallback", "health"}) = {}
         /\ ~PeriodicHealthStep
         /\ \/ /\ Ended({"payment"}) # {}
               /\ Pushed(successfulPaymentIds, successfulPaymentIds', issuedIds')
            \/ \E t \in Ended({"refund"}) :
                  /\ Len(successfulPaymentIds') = Len(successfulPaymentIds) - 1
                  /\ successfulPaymentIds' = Splice(successfulPaymentIds, t.randomIndex)]_vars

\* C22 witness: after the pool filled and was trimmed and a refund tick
\* evicted an entry, a status-lookup tick and the periodic health call are
\* both outstanding
C22_Witness ==
    /\ successfulPaymentIds # <<>>
    /\ Len(appended) > PoolCap
    /\ spliceCount > 0
    /\ healthCalls > 0
    /\ \E t \in BagToSet(ticks) : t.pc = "status"

----------------------------------------------------------------------------
(* Payment service: values *)

\* requests received over a run
MaxReqs == 2

\* JavaScript values, as <<type, text, number>>.  Uuid(n) is the string the
\* n-th call of uuidv4() returns, PaymentId(n) and RefundId(n) the prefix
\* followed by what the n-th call of faker.finance.account(10) returns.
Undefined == <<"undefined", "", 0>>
Str(text) == <<"string", text, 0>>
Num(n) == <<"number", "", n>>
Bool(b) == <<"boolean", "", IF b THEN 1 ELSE 0>>
Uuid(n) == <<"string", "uuid", n>>
PaymentId(n) == <<"string", "pmt_", n>>
RefundId(n) == <<"string", "ref_", n>>

\* !v
Not(v) == v \in {Undefined, Str(""), Num(0), Bool(FALSE)}

\* (mutant of Or) a ?? b: only undefined falls through
OrNullish(a, b) == IF a = Undefined THEN b ELSE a

\* a || b
Or(a, b) == IF Not(a) THEN b ELSE a

\* the draws u with u / RandDen just below, at and just above num / den
Around(num, den) ==
    LET k == (num * RandDen) \div den
    IN  {k - 1, k, k + 1} \cap (0 .. RandDen - 1)

\* the draws tried for a delay and for the status index
DelayDraws == {RandDen \div 2}
StatusDraws == {0, RandDen \div 4, RandDen \div 2, RandDen - 1}

\* Math.floor(Math.random() * span), for the draw u / den
FloorOf(u, den, span) == (u * span) \div den

\* Math.floor(Math.random() * span) + base
DelayMs(u, span, base) == FloorOf(u, RandDen, span) + base

\* Math.random() is tried as u / DrawDen, u \in 0 .. DrawDen - 1, where the
\* whole range of a delay is looked at: fine enough for every whole number
\* of milliseconds that a delay can take to be taken
DrawDen == 2000

\* processingTime of the three delayed routes (lines 136, 278, 334)
DelayOf(route, u) ==
    CASE route = "payments" -> FloorOf(u, DrawDen, 1950) + 50
      [] route = "status" -> FloorOf(u, DrawDen, 290) + 10
      [] route = "refunds" -> FloorOf(u, DrawDen, 1500) + 100

DelayedRoutes == {"payments", "status", "refunds"}

\* line 274
statuses == <<"completed", "pending", "failed", "refunded">>

\* a request body after bodyParser.json(): the fields the handlers read
NoBody ==
    [amount |-> Undefined, currency |-> Undefined, customerId |-> Undefined,
     paymentId |-> Undefined, reason |-> Undefined]
PaymentBody(amount, currency, customerId) ==
    [NoBody EXCEPT !.amount = amount, !.currency = currency, !.customerId = customerId]
RefundBody(paymentId, amount) ==
    [NoBody EXCEPT !.paymentId = paymentId, !.amount = amount]

\* A request line: the URL is base, followed by "/" and tail when slash.
Line(method, base, slash, tail) ==
    [method |-> method, base |-> base, slash |-> slash, tail |-> tail]

\* bodies of POST /api/payments that fail the validation of line 109
BadPaymentBodies ==
    {PaymentBody(Undefined, Str("USD"), Str("c1")),
     PaymentBody(Num(10), Undefined, Str("c1")),
     PaymentBody(Num(10), Str("USD"), Undefined),
     PaymentBody(Num(0), Str("USD"), Str("c1")),
     PaymentBody(Undefined, Str(""), Undefined)}

\* bodies of POST /api/refunds that fail the validation of line 308
BadRefundBodies ==
    {RefundBody(Undefined, Num(5)),
     RefundBody(Str("pmt_x"), Undefined),
     RefundBody(Str("pmt_x"), Num(0))}

\* the values of an inbound x-trace-id header: absent, empty, given
TraceHeaders == {Undefined, Str(""), Str("trace-A")}

PaymentsLine == Line("POST", "/api/payments", FALSE, Str(""))
RefundsLine == Line("POST", "/api/refunds", FALSE, Str(""))
StatusLine(id) == Line("GET", "/api/payments", TRUE, id)

\* The requests tried, as <<request line, body, x-trace-id header>>: every
\* route; bodies that pass and that fail the validation; ids that were
\* issued, never issued, malformed and empty; a URL no route matches; and
\* every kind of trace header on routes that answer at once and later.
Requests ==
    {<<PaymentsLine, PaymentBody(Num(10), Str("USD"), Str("c1")), Undefined>>}
    \cup {<<PaymentsLine, b, Undefined>> : b \in BadPaymentBodies}
    \cup {<<StatusLine(PaymentId(1)), NoBody, Str("trace-A")>>,
          <<StatusLine(Str("not an id")), NoBody, Undefined>>,
          <<StatusLine(Str("")), NoBody, Undefined>>}
    \cup {<<RefundsLine, RefundBody(PaymentId(1), Num(5)), Str("")>>,
          <<RefundsLine, RefundBody(Str("pmt_x"), Num(5)), Undefined>>}
    \cup {<<RefundsLine, b, Str("trace-A")>> : b \in BadRefundBodies}
    \cup {<<Line("GET", "/health", FALSE, Str("")), NoBody, h>> : h \in TraceHeaders}
    \cup {<<Line("GET", "/", FALSE, Str("")), NoBody, Undefined>>,
          <<Line("GET", "/metrics", FALSE, Str("")), NoBody, Str("")>>}

----------------------------------------------------------------------------
(* Payment service: routing, middleware and handlers *)

\* The handler Express runs for a request line: app.post / app.get match the
\* method and the whole path; a trailing "/" is allowed; ":paymentId" matches
\* one non-empty path segment.  "notFound" is Express's own 404.
Route(line) ==
    LET bare == ~line.slash \/ line.tail = Str("")
    IN  IF line.method = "POST" /\ line.base = "/api/payments" /\ bare
             THEN "payments"
        ELSE IF line.method = "GET" /\ line.base = "/api/payments" /\ ~bare
             THEN "status"
        ELSE IF line.method = "POST" /\ line.base = "/api/refunds" /\ bare
             THEN "refunds"
        ELSE IF line.method = "GET" /\ line.base = "/health" /\ bare
             THEN "health"
        ELSE IF line.method = "GET" /\ line.base = "/" /\ bare
             THEN "info"
        ELSE "notFound"

\* a response body: the fields the handlers set (timestamp left out)
EmptyJson ==
    [success |-> Undefined, payment_id |-> Undefined, refund_id |-> Undefined,
     error |-> Undefined, amount |-> Undefined, currency |-> Undefined,
     status |-> Undefined, service |-> Undefined]

NoResponse == [status |-> 0, body |-> EmptyJson]

\* (mutant of Event) the event is logged without the transaction id
EventNoTransaction(level, type, message, r) ==
    [level |-> level, event_type |-> type, message |-> message,
     trace_id |-> r.traceId, transaction_id |-> Undefined,
     status_code |-> 0, payment_id |-> Undefined, refund_id |-> Undefined,
     processing_time |-> 0, level_field |-> Undefined]

\* a structured event: the level it is logged at and the fields it carries
Event(level, type, message, r) ==
    [level |-> level, event_type |-> type, message |-> message,
     trace_id |-> r.traceId, transaction_id |-> r.transactionId,
     status_code |-> 0, payment_id |-> Undefined, refund_id |-> Undefined,
     processing_time |-> 0, level_field |-> Undefined]

\* lines 70-98: the patched res.end logs 'Request completed' with
\* logger.info and a level field, then sends the response
End(r, status, body) ==
    [r EXCEPT
       !.stage = "done",
       !.resp = [status |-> status, body |-> body],
       !.events = Append(@,
           [Event("info", "response", "Request completed", r) EXCEPT
              !.status_code = status,
              !.level_field = IF status >= 400 THEN Str("error") ELSE Str("info")])]

Log(r, event) == [r EXCEPT !.events = Append(@, event)]

\* lines 32-62: the request ID middleware; n is the number of uuidv4() calls
\* made before the request
RequestIds(line, header, body, n) ==
    LET fresh == Not(header)
        traceId == Or(header, Uuid(n + 1))
        transactionId == Uuid(n + (IF fresh THEN 2 ELSE 1))
        r == [line |-> line, header |-> header, body |-> body,
              route |-> Route(line),
              traceId |-> traceId, transactionId |-> transactionId,
              headers |-> [xTraceId |-> traceId, xTransactionId |-> transactionId],
              stage |-> "received",
              paymentId |-> Undefined, refundId |-> Undefined,
              processingTime |-> 0,
              simulateFailure |-> FALSE, simulateTimeout |-> FALSE,
              simulateValidationError |-> FALSE,
              randomStatus |-> "",
              timers |-> 0, draws |-> 0,
              resp |-> NoResponse, events |-> <<>>]
    IN  Log(r, Event("info", "request", "Incoming request", r))

\* uuidv4() calls the middleware makes
UuidCalls(header) == IF Not(header) THEN 2 ELSE 1

\* (mutant of PaymentsHandler) the validation forgets customerId
PaymentsHandlerUnchecked(r, k, uT, uF, uO, uV) ==
    LET amount == r.body.amount
        currency == r.body.currency
    IN  IF Not(amount) \/ Not(currency)
        THEN End(Log(r, [Event("error", "payment_validation_error",
                                "Payment validation failed", r)
                           EXCEPT !.status_code = 400]),
                 400,
                 [EmptyJson EXCEPT !.success = Bool(FALSE),
                                   !.error = Str("Missing required fields for payment")])
        ELSE LET paymentId == PaymentId(k + 1)
                 q == [r EXCEPT
                         !.paymentId = paymentId,
                         !.processingTime = DelayMs(uT, 1950, 50),
                         !.simulateFailure = RandomLt(uF, 2, 10),
                         !.simulateTimeout = RandomLt(uO, 5, 100),
                         !.simulateValidationError = RandomLt(uV, 1, 10),
                         !.draws = 4,
                         !.timers = 1,
                         !.stage = "waiting"]
             IN  Log(q, [Event("info", "payment_processing", "Processing payment", q)
                           EXCEPT !.payment_id = paymentId])

\* lines 105-157: POST /api/payments up to setTimeout; k is the number of
\* faker.finance.account calls made before, uT, uF, uO, uV the four draws of
\* Math.random() in the order the handler makes them
PaymentsHandler(r, k, uT, uF, uO, uV) ==
    LET amount == r.body.amount
        currency == r.body.currency
        customerId == r.body.customerId
    IN  IF Not(amount) \/ Not(currency) \/ Not(customerId)
        THEN End(Log(r, [Event("error", "payment_validation_error",
                                "Payment validation failed", r)
                           EXCEPT !.status_code = 400]),
                 400,
                 [EmptyJson EXCEPT !.success = Bool(FALSE),
                                   !.error = Str("Missing required fields for payment")])
        ELSE LET paymentId == PaymentId(k + 1)
                 processingTime == DelayMs(uT, 1950, 50)
                 q == [r EXCEPT
                         !.paymentId = paymentId,
                         !.processingTime = processingTime,
                         !.simulateFailure = RandomLt(uF, 2, 10),
                         !.simulateTimeout = RandomLt(uO, 5, 100),
                         !.simulateValidationError = RandomLt(uV, 1, 10),
                         !.draws = 4,
                         !.timers = 1,
                         !.stage = "waiting"]
             IN  Log(q, [Event("info", "payment_processing", "Processing payment", q)
                           EXCEPT !.payment_id = paymentId])

\* (mutant of PaymentsCallback) the failure draw is looked at before the
\* validation draw
PaymentsCallbackReordered(r, uR) ==
    LET errorReason == IF RandomLt(uR, 5, 10) THEN "Invalid card details"
                                              ELSE "Insufficient funds"
        Outcome(level, type, message, status) ==
            [Event(level, type, message, r) EXCEPT
               !.status_code = status, !.payment_id = r.paymentId,
               !.processing_time = r.processingTime]
        Failed(error) ==
            [EmptyJson EXCEPT !.success = Bool(FALSE), !.payment_id = r.paymentId,
                              !.error = Str(error)]
    IN  IF r.simulateTimeout
        THEN End(Log(r, Outcome("error", "payment_timeout", "Payment gateway timeout", 504)),
                 504, Failed("Payment gateway timeout"))
        ELSE IF r.simulateFailure
        THEN End(Log(r, Outcome("error", "payment_failure", "Payment processing failed", 500)),
                 500, Failed("Payment processor error"))
        ELSE IF r.simulateValidationError
        THEN End(Log(r, Outcome("error", "payment_validation_error",
                                "Payment validation error: " \o errorReason, 400)),
                 400, Failed(errorReason))
        ELSE End(Log(r, Outcome("info", "payment_success", "Payment processed successfully", 200)),
                 200,
                 [EmptyJson EXCEPT !.success = Bool(TRUE), !.payment_id = r.paymentId,
                                   !.amount = r.body.amount, !.currency = r.body.currency,
                                   !.status = Str("completed")])

\* (mutant of PaymentsCallback) the response is sent first and the outcome
\* is logged after it
PaymentsCallbackAnswersFirst(r, uR) ==
    LET errorReason == IF RandomLt(uR, 5, 10) THEN "Invalid card details"
                                              ELSE "Insufficient funds"
        Outcome(level, type, message, status) ==
            [Event(level, type, message, r) EXCEPT
               !.status_code = status, !.payment_id = r.paymentId,
               !.processing_time = r.processingTime]
        Failed(error) ==
            [EmptyJson EXCEPT !.success = Bool(FALSE), !.payment_id = r.paymentId,
                              !.error = Str(error)]
    IN  IF r.simulateTimeout
        THEN Log(End(r, 504, Failed("Payment gateway timeout")),
                 Outcome("error", "payment_timeout", "Payment gateway timeout", 504))
        ELSE IF r.simulateValidationError
        THEN Log(End(r, 400, Failed(errorReason)),
                 Outcome("error", "payment_validation_error",
                         "Payment validation error: " \o errorReason, 400))
        ELSE IF r.simulateFailure
        THEN Log(End(r, 500, Failed("Payment processor error")),
                 Outcome("error", "payment_failure", "Payment processing failed", 500))
        ELSE Log(End(r, 200,
                     [EmptyJson EXCEPT !.success = Bool(TRUE), !.payment_id = r.paymentId,
                                       !.amount = r.body.amount,
                                       !.currency = r.body.currency,
                                       !.status = Str("completed")]),
                 Outcome("info", "payment_success", "Payment processed successfully", 200))

\* lines 160-254: the setTimeout callback of POST /api/payments; uR is the
\* draw that picks the reason of a validation error
PaymentsCallback(r, uR) ==
    LET errorReason == IF RandomLt(uR, 5, 10) THEN "Invalid card details"
                                              ELSE "Insufficient funds"
        Outcome(level, type, message, status) ==
            [Event(level, type, message, r) EXCEPT
               !.status_code = status, !.payment_id = r.paymentId,
               !.processing_time = r.processingTime]
        Failed(error) ==
            [EmptyJson EXCEPT !.success = Bool(FALSE), !.payment_id = r.paymentId,
                              !.error = Str(error)]
    IN  IF r.simulateTimeout
        THEN End(Log(r, Outcome("error", "payment_timeout", "Payment gateway timeout", 504)),
                 504, Failed("Payment gateway timeout"))
        ELSE IF r.simulateValidationError
        THEN End(Log(r, Outcome("error", "payment_validation_error",
                                "Payment validation error: " \o errorReason, 400)),
                 400, Failed(errorReason))
        ELSE IF r.simulateFailure
        THEN End(Log(r, Outcome("error", "payment_failure", "Payment processing failed", 500)),
                 500, Failed("Payment processor error"))
        ELSE End(Log(r, Outcome("info", "payment_success", "Payment processed successfully", 200)),
                 200,
                 [EmptyJson EXCEPT !.success = Bool(TRUE), !.payment_id = r.paymentId,
                                   !.amount = r.body.amount, !.currency = r.body.currency,
                                   !.status = Str("completed")])

\* (mutant of StatusHandler) the handler answers at once, with no setTimeout
StatusHandlerAnswersAtOnce(r, uS, uT) ==
    LET paymentId == r.line.tail
        q == [r EXCEPT
                !.paymentId = paymentId,
                !.randomStatus = statuses[((uS * Len(statuses)) \div RandDen) + 1],
                !.processingTime = DelayMs(uT, 290, 10),
                !.draws = 2]
    IN  End(Log(q, [Event("info", "status_check", "Payment status lookup", q)
                      EXCEPT !.payment_id = paymentId]),
            200,
            [EmptyJson EXCEPT !.payment_id = paymentId, !.status = Str(q.randomStatus)])

\* lines 258-278: GET /api/payments/:paymentId up to setTimeout; uS and uT
\* are the draws of the status and of the delay
StatusHandler(r, uS, uT) ==
    LET paymentId == r.line.tail
        q == [r EXCEPT
                !.paymentId = paymentId,
                !.randomStatus = statuses[((uS * Len(statuses)) \div RandDen) + 1],
                !.processingTime = DelayMs(uT, 290, 10),
                !.draws = 2,
                !.timers = 1,
                !.stage = "waiting"]
    IN  Log(q, [Event("info", "status_check", "Payment status lookup", q)
                  EXCEPT !.payment_id = paymentId])

\* (mutant of StatusCallback) an id that is no payment id is answered 404
StatusCallbackChecksId(r) ==
    IF r.paymentId[2] = "pmt_"
    THEN End(r, 200,
             [EmptyJson EXCEPT !.payment_id = r.paymentId, !.status = Str(r.randomStatus)])
    ELSE End(r, 404, [EmptyJson EXCEPT !.error = Str("Payment not found")])

\* lines 280-300: the setTimeout callback of the status lookup
StatusCallback(r) ==
    End(Log(r, [Event("info", "status_result", "Payment status: " \o r.randomStatus, r)
                  EXCEPT !.payment_id = r.paymentId,
                         !.processing_time = r.processingTime]),
        200,
        [EmptyJson EXCEPT !.payment_id = r.paymentId, !.status = Str(r.randomStatus)])

\* lines 304-352: POST /api/refunds up to setTimeout; k is the number of
\* faker.finance.account calls made before, uT and uF the two draws
RefundsHandler(r, k, uT, uF) ==
    LET paymentId == r.body.paymentId
        amount == r.body.amount
    IN  IF Not(paymentId) \/ Not(amount)
        THEN End(Log(r, [Event("error", "refund_validation_error",
                                "Refund validation failed", r)
                           EXCEPT !.status_code = 400]),
                 400,
                 [EmptyJson EXCEPT !.success = Bool(FALSE),
                                   !.error = Str("Missing required fields for refund")])
        ELSE LET refundId == RefundId(k + 1)
                 q == [r EXCEPT
                         !.refundId = refundId,
                         !.paymentId = paymentId,
                         !.processingTime = DelayMs(uT, 1500, 100),
                         !.simulateFailure = RandomLt(uF, 15, 100),
                         !.draws = 2,
                         !.timers = 1,
                         !.stage = "waiting"]
             IN  Log(q, [Event("info", "refund_processing", "Processing refund", q)
                           EXCEPT !.refund_id = refundId, !.payment_id = paymentId])

\* (mutant of RefundsCallback) the two branches are swapped
RefundsCallbackSwapped(r) ==
    LET Outcome(level, type, message, status) ==
            [Event(level, type, message, r) EXCEPT
               !.status_code = status, !.refund_id = r.refundId,
               !.payment_id = r.paymentId, !.processing_time = r.processingTime]
    IN  IF ~r.simulateFailure
        THEN End(Log(r, Outcome("error", "refund_failure", "Refund processing failed", 500)),
                 500,
                 [EmptyJson EXCEPT !.success = Bool(FALSE), !.refund_id = r.refundId,
                                   !.payment_id = r.paymentId,
                                   !.error = Str("Refund processor error")])
        ELSE End(Log(r, Outcome("info", "refund_success", "Refund processed successfully", 200)),
                 200,
                 [EmptyJson EXCEPT !.success = Bool(TRUE), !.refund_id = r.refundId,
                                   !.payment_id = r.paymentId, !.amount = r.body.amount,
                                   !.status = Str("completed")])

\* lines 354-404: the setTimeout callback of POST /api/refunds
RefundsCallback(r) ==
    LET Outcome(level, type, message, status) ==
            [Event(level, type, message, r) EXCEPT
               !.status_code = status, !.refund_id = r.refundId,
               !.payment_id = r.paymentId, !.processing_time = r.processingTime]
    IN  IF r.simulateFailure
        THEN End(Log(r, Outcome("error", "refund_failure", "Refund processing failed", 500)),
                 500,
                 [EmptyJson EXCEPT !.success = Bool(FALSE), !.refund_id = r.refundId,
                                   !.payment_id = r.paymentId,
                                   !.error = Str("Refund processor error")])
        ELSE End(Log(r, Outcome("info", "refund_success", "Refund processed successfully", 200)),
                 200,
                 [EmptyJson EXCEPT !.success = Bool(TRUE), !.refund_id = r.refundId,
                                   !.payment_id = r.paymentId, !.amount = r.body.amount,
                                   !.status = Str("completed")])

\* lines 408-421: GET /health
HealthHandler(r) ==
    End(Log(r, Event("info", "system", "Health check", r)),
        200, [EmptyJson EXCEPT !.status = Str("ok"), !.service = Str("payment-processor")])

\* lines 424-446: GET /
InfoHandler(r) ==
    End(Log(r, Event("info", "system", "Service info request", r)),
        200, [EmptyJson EXCEPT !.service = Str("payment-processor")])

\* no route matches: Express answers 404 through the patched res.end
NotFound(r) == End(r, 404, EmptyJson)

\* faker.finance.account calls the handler made: one for the id of a
\* payment or refund that passed the validation (lines 133, 331)
AccountCalls(r) ==
    IF r.route \in {"payments", "refunds"} /\ r.stage = "waiting" THEN 1 ELSE 0

\* the tuples of Math.random() draws a handler is tried with
HandlerDraws(route) ==
    CASE route = "payments" ->
           {<<uT, uF, uO, uV>> : uT \in DelayDraws, uF \in Around(2, 10),
                                 uO \in Around(5, 100), uV \in Around(1, 10)}
      [] route = "status" -> {<<uS, uT>> : uS \in StatusDraws, uT \in DelayDraws}
      [] route = "refunds" -> {<<uT, uF>> : uT \in DelayDraws, uF \in Around(15, 100)}
      [] OTHER -> {<<>>}

\* the handler of the request's route, run up to its return
Handle(r, k, d) ==
    CASE r.route = "payments" -> PaymentsHandler(r, k, d[1], d[2], d[3], d[4])
      [] r.route = "status" -> StatusHandler(r, d[1], d[2])
      [] r.route = "refunds" -> RefundsHandler(r, k, d[1], d[2])
      [] r.route = "health" -> HealthHandler(r)
      [] r.route = "info" -> InfoHandler(r)
      [] OTHER -> NotFound(r)

\* the setTimeout callback of the request's route
Callback(r, uR) ==
    CASE r.route = "payments" -> PaymentsCallback(r, uR)
      [] r.route = "status" -> StatusCallback(r)
      [] r.route = "refunds" -> RefundsCallback(r)

----------------------------------------------------------------------------
(* Payment service: actions *)

\* The delays seen over the draws tried so far: the smallest, the largest,
\* how many there are, and how many whole numbers between two successive
\* ones were skipped (the delay is monotone in the draw).  seen = 0: none.
NoDelays == [lo |-> 0, hi |-> 0, seen |-> 0, skipped |-> 0]
WithDelay(range, d) ==
    IF range.seen = 0 THEN [lo |-> d, hi |-> d, seen |-> 1, skipped |-> 0]
    ELSE [lo |-> IF d < range.lo THEN d ELSE range.lo,
          hi |-> IF d > range.hi THEN d ELSE range.hi,
          seen |-> range.seen + (IF d > range.hi THEN 1 ELSE 0),
          skipped |-> range.skipped + (IF d > range.hi + 1 THEN d - range.hi - 1 ELSE 0)]

\* lines 449-457 and 460-467: the events of app.listen's callback and of
\* the SIGTERM handler; they are logged with no trace_id or transaction_id
ServerEvent(type, message) ==
    [level |-> "info", event_type |-> type, message |-> message,
     trace_id |-> Undefined, transaction_id |-> Undefined,
     status_code |-> 0, payment_id |-> Undefined, refund_id |-> Undefined,
     processing_time |-> 0, level_field |-> Undefined]

\* process.exit(0) was called
Exited == \E n \in 1 .. Len(serverEvents) : serverEvents[n].event_type = "shutdown"

\* the server is listening: the callback of app.listen has logged 'startup'
\* (the message is the one for the default SERVICE_NAME and PORT)
SvcInit ==
    /\ reqs = <<>>
    /\ uuidCount = 0
    /\ accountCount = 0
    /\ serverEvents = <<ServerEvent("startup", "payment-processor started on port 3000")>>
    /\ drawsTried = 0
    /\ delayRange = [route \in DelayedRoutes |-> NoDelays]

\* The next draw of Math.random(), in increasing order, is put through the
\* delay computation of every delayed route.
TryDraw ==
    /\ drawsTried < DrawDen
    /\ drawsTried' = drawsTried + 1
    /\ delayRange' = [route \in DelayedRoutes |->
                        WithDelay(delayRange[route], DelayOf(route, drawsTried))]
    /\ UNCHANGED <<reqs, uuidCount, accountCount, serverEvents, genVars>>

\* lines 460-467: SIGTERM is delivered; the handler logs 'shutdown' and
\* exits, and the timers still pending never fire
Sigterm ==
    /\ ~Exited
    /\ serverEvents' = Append(serverEvents,
                              ServerEvent("shutdown", "payment-processor shutting down"))
    /\ UNCHANGED <<reqs, uuidCount, accountCount, drawsTried, delayRange, genVars>>

\* a request, one of requests, arrives: both middlewares and the route's
\* handler run
ReceiveFrom(requests) ==
    /\ ~Exited
    /\ Len(reqs) < MaxReqs
    /\ \E rq \in requests :
         \E d \in HandlerDraws(Route(rq[1])) :
            LET r == Handle(RequestIds(rq[1], rq[3], rq[2], uuidCount), accountCount, d)
            IN  /\ reqs' = Append(reqs, r)
                /\ uuidCount' = uuidCount + UuidCalls(rq[3])
                /\ accountCount' = accountCount + AccountCalls(r)
    /\ UNCHANGED <<serverEvents, drawsTried, delayRange, genVars>>

Receive == ReceiveFrom(Requests)

\* the requests to the three routes that answer after a delay
DelayedRequests == {rq \in Requests : Route(rq[1]) \in DelayedRoutes}

\* (mutant of TimerFires) the ids are kept in variables the handlers share:
\* the callback reads those the latest request has set
TimerFiresSharedIds(i) ==
    /\ ~Exited
    /\ reqs[i].stage = "waiting"
    /\ \E uR \in Around(5, 10) :
         LET last == reqs[Len(reqs)]
             r == [reqs[i] EXCEPT !.paymentId = last.paymentId,
                                  !.refundId = last.refundId]
         IN  reqs' = [reqs EXCEPT ![i] = [Callback(r, uR) EXCEPT !.timers = 0]]
    /\ UNCHANGED <<uuidCount, accountCount, serverEvents, drawsTried, delayRange, genVars>>

\* the timer of request i fires: the callback logs the outcome and answers
TimerFires(i) ==
    /\ ~Exited
    /\ reqs[i].stage = "waiting"
    /\ \E uR \in Around(5, 10) :
         reqs' = [reqs EXCEPT ![i] = [Callback(reqs[i], uR) EXCEPT !.timers = 0]]
    /\ UNCHANGED <<uuidCount, accountCount, serverEvents, drawsTried, delayRange, genVars>>

SvcNext ==
    \/ Receive
    \/ \E i \in 1 .. Len(reqs) : TimerFires(i)

----------------------------------------------------------------------------
(* Payment service: properties *)

Answered(r) == r.stage = "done"
OutcomeTypes ==
    {"payment_timeout", "payment_validation_error", "payment_failure", "payment_success"}
OutcomeEvents(r) == {n \in 1 .. Len(r.events) : r.events[n].event_type \in OutcomeTypes}

\* C3: a payment that passed the field validation ends in exactly one
\* outcome, the first of timeout (504), validation error (400), processor
\* failure (500) whose draw is true, and success (200) when none is.
C3_PriorityOrder ==
    \A i \in 1 .. Len(reqs) :
        LET r == reqs[i]
            t == r.simulateTimeout
            v == r.simulateValidationError
            f == r.simulateFailure
            type == r.events[CHOOSE n \in OutcomeEvents(r) : TRUE].event_type
        IN  (r.route = "payments" /\ r.paymentId # Undefined /\ Answered(r)) =>
              /\ Cardinality(OutcomeEvents(r)) = 1
              /\ (r.resp.status = 504 /\ type = "payment_timeout") <=> t
              /\ (r.resp.status = 400 /\ type = "payment_validation_error") <=> (~t /\ v)
              /\ (r.resp.status = 500 /\ type = "payment_failure") <=> (~t /\ ~v /\ f)
              /\ (r.resp.status = 200 /\ type = "payment_success") <=> (~t /\ ~v /\ ~f)
              /\ r.resp.status \in {504, 400, 500, 200}

\* C3 witness: the validation and the failure draw are both true and the
\* answer is the validation error
C3_Witness ==
    \E i \in 1 .. Len(reqs) :
        /\ reqs[i].route = "payments" /\ Answered(reqs[i])
        /\ ~reqs[i].simulateTimeout
        /\ reqs[i].simulateValidationError /\ reqs[i].simulateFailure
        /\ reqs[i].resp.status = 400

MissingPaymentField(r) ==
    \/ r.body.amount = Undefined
    \/ r.body.currency = Undefined
    \/ r.body.customerId = Undefined

\* C4: a POST /api/payments with amount, currency or customerId missing is
\* answered 400 with success:false by the step that receives it: there is
\* no state in which it waits, it has no timer, no payment id and no draw,
\* and the answer is the same whatever the other fields are.
C4_MissingFields ==
    \A i \in 1 .. Len(reqs) :
        LET r == reqs[i]
        IN  (r.route = "payments" /\ MissingPaymentField(r)) =>
              /\ Answered(r)
              /\ r.resp.status = 400
              /\ r.resp.body = [EmptyJson EXCEPT
                                  !.success = Bool(FALSE),
                                  !.error = Str("Missing required fields for payment")]
              /\ r.timers = 0 /\ r.draws = 0 /\ r.processingTime = 0
              /\ r.paymentId = Undefined

\* C4 witness: only customerId is missing
C4_Witness ==
    \E i \in 1 .. Len(reqs) :
        /\ reqs[i].route = "payments"
        /\ reqs[i].body.amount = Num(10) /\ reqs[i].body.currency = Str("USD")
        /\ reqs[i].body.customerId = Undefined
        /\ reqs[i].resp.status = 400

IsStatusRequest(r) ==
    r.line.method = "GET" /\ r.line.base = "/api/payments" /\ r.line.slash

StatusNames == {Str("completed"), Str("pending"), Str("failed"), Str("refunded")}

\* C5 (as claimed): GET /api/payments/<id> is answered 200 with one of the
\* four statuses for every id, the empty id included.
C5_AnyIdAnswered ==
    \A i \in 1 .. Len(reqs) :
        (IsStatusRequest(reqs[i]) /\ Answered(reqs[i])) =>
            /\ reqs[i].resp.status = 200
            /\ reqs[i].resp.body.status \in StatusNames

\* C5 (amended): GET /api/payments/<id> with a non-empty id, issued or not,
\* well-formed or not, is answered 200 with one of the four statuses and the
\* id it was asked for; with the empty id no route matches and the answer is
\* Express's 404.
C5_NonEmptyIdAnswered ==
    \A i \in 1 .. Len(reqs) :
        LET r == reqs[i]
        IN  (IsStatusRequest(r) /\ Answered(r)) =>
              IF r.line.tail # Str("")
              THEN /\ r.resp.status = 200
                   /\ r.resp.body.status \in StatusNames
                   /\ r.resp.body.payment_id = r.line.tail
              ELSE r.resp.status = 404

\* C5 witness: an id that is no payment id was answered after a request with
\* the empty id
C5_Witness ==
    /\ Len(reqs) = 2
    /\ IsStatusRequest(reqs[1]) /\ reqs[1].line.tail = Str("")
    /\ IsStatusRequest(reqs[2]) /\ reqs[2].line.tail = Str("not an id")
    /\ Answered(reqs[2]) /\ reqs[2].resp.body.status = Str("refunded")

IsUuid(v) == v[1] = "string" /\ v[2] = "uuid"

\* the tokens uuidv4() made for request i
Generated(i) ==
    {reqs[i].transactionId} \cup
    (IF IsUuid(reqs[i].traceId) THEN {reqs[i].traceId} ELSE {})

\* C6: every request has both response headers; x-trace-id is the inbound
\* header when that is present and not empty and a fresh token otherwise;
\* x-transaction-id is a fresh token for every request.
C6_CorrelationIds ==
    \A i \in 1 .. Len(reqs) :
        LET r == reqs[i]
            given == r.header # Undefined /\ r.header # Str("")
        IN  /\ r.headers.xTraceId = r.traceId
            /\ r.headers.xTransactionId = r.transactionId
            /\ IF given THEN r.traceId = r.header ELSE IsUuid(r.traceId)
            /\ IsUuid(r.transactionId)
            /\ r.transactionId # r.traceId
            /\ \A j \in 1 .. Len(reqs) : j # i => Generated(i) \cap Generated(j) = {}

\* C6 witness: two answered requests share the inbound trace id, so each got
\* its own transaction id
C6_Witness ==
    /\ Len(reqs) = 2
    /\ reqs[1].header = Str("trace-A") /\ reqs[2].header = Str("trace-A")
    /\ Answered(reqs[1]) /\ Answered(reqs[2])
    /\ reqs[1].headers.xTraceId = reqs[2].headers.xTraceId

\* C7: a POST /api/refunds that carries paymentId and amount, for an id that
\* was issued or not, ends in one of two outcomes decided by its one draw:
\* 500 with success:false, refund_id, the payment_id given and 'Refund
\* processor error', or 200 with success:true, refund_id, payment_id and
\* amount; its refund_id is fresh.  One that lacks paymentId or amount is
\* answered 400 at once with no refund_id and no timer.
C7_RefundOutcomes ==
    \A i \in 1 .. Len(reqs) :
        LET r == reqs[i]
            b == r.resp.body
        IN  r.route = "refunds" =>
              IF r.body.paymentId = Undefined \/ r.body.amount \in {Undefined, Num(0)}
              THEN /\ Answered(r) /\ r.resp.status = 400
                   /\ b.success = Bool(FALSE) /\ b.refund_id = Undefined
                   /\ r.refundId = Undefined /\ r.timers = 0
              ELSE /\ r.draws = 2
                   /\ r.refundId[2] = "ref_"
                   /\ \A j \in 1 .. Len(reqs) : j # i => reqs[j].refundId # r.refundId
                   /\ Answered(r) =>
                        /\ b.refund_id = r.refundId
                        /\ b.payment_id = r.body.paymentId
                        /\ IF r.simulateFailure
                           THEN /\ r.resp.status = 500 /\ b.success = Bool(FALSE)
                                /\ b.error = Str("Refund processor error")
                           ELSE /\ r.resp.status = 200 /\ b.success = Bool(TRUE)
                                /\ b.amount = r.body.amount

\* C7 witness: the refund of an id no payment returned failed
C7_Witness ==
    \E i \in 1 .. Len(reqs) :
        /\ reqs[i].route = "refunds" /\ Answered(reqs[i])
        /\ reqs[i].body.paymentId = Str("pmt_x") /\ reqs[i].body.amount = Num(5)
        /\ reqs[i].simulateFailure
        /\ reqs[i].resp.status = 500

\* every event the service has logged: those of its requests and those
\* logged outside any request
AllEvents ==
    UNION {{reqs[i].events[n] : n \in 1 .. Len(reqs[i].events)} : i \in 1 .. Len(reqs)}
    \cup {serverEvents[n] : n \in 1 .. Len(serverEvents)}

\* the event has the field, with a value that is not empty
Has(value) == value # Undefined /\ value # Str("")

HasAllFour(e) ==
    /\ Has(e.trace_id) /\ Has(e.transaction_id)
    /\ e.event_type # "" /\ e.message # ""

\* C14 (as claimed): every event the service emits, the startup and the
\* shutdown event included, has trace_id, transaction_id, event_type and
\* message.
C14_EveryEventHasIds == \A e \in AllEvents : HasAllFour(e)

\* C14 (amended): every event emitted for a request (incoming request,
\* processing, outcome, response, health, info) has trace_id,
\* transaction_id, event_type and message, and the two ids are those of its
\* request; the startup and the shutdown event have event_type and message
\* and neither id.
C14_RequestEventsHaveIds ==
    /\ \A i \in 1 .. Len(reqs) : \A n \in 1 .. Len(reqs[i].events) :
          LET e == reqs[i].events[n]
          IN  /\ HasAllFour(e)
              /\ e.trace_id = reqs[i].headers.xTraceId
              /\ e.transaction_id = reqs[i].headers.xTransactionId
    /\ \A n \in 1 .. Len(serverEvents) :
          LET e == serverEvents[n]
          IN  /\ e.event_type \in {"startup", "shutdown"} /\ e.message # ""
              /\ e.trace_id = Undefined /\ e.transaction_id = Undefined

\* C14 witness: a request that came with an empty x-trace-id header was
\* answered and a failed payment logged its outcome before the shutdown
C14_Witness ==
    /\ Exited
    /\ \E i \in 1 .. Len(reqs) : reqs[i].header = Str("") /\ Answered(reqs[i])
    /\ \E i \in 1 .. Len(reqs) :
          reqs[i].route = "payments" /\ reqs[i].resp.status = 504

\* the values v that are set among the values of vs
Defined(vs) == {v \in vs : v # Undefined}

\* the payment ids and the refund ids that the events and the response of
\* request r name
PaymentIdsOf(r) ==
    Defined({r.events[n].payment_id : n \in 1 .. Len(r.events)}
            \cup {r.resp.body.payment_id})
RefundIdsOf(r) ==
    Defined({r.events[n].refund_id : n \in 1 .. Len(r.events)}
            \cup {r.resp.body.refund_id})

\* the status the draws of request r decide (0: none, r has no timer)
OwnStatus(r) ==
    CASE r.route = "payments" /\ r.draws > 0 ->
           IF r.simulateTimeout THEN 504
           ELSE IF r.simulateValidationError THEN 400
           ELSE IF r.simulateFailure THEN 500 ELSE 200
      [] r.route = "refunds" /\ r.draws > 0 ->
           IF r.simulateFailure THEN 500 ELSE 200
      [] r.route = "status" -> 200
      [] OTHER -> 0

\* everything request r logged and answered is its own: its two ids, the
\* one payment id and the one refund id it was given, the outcome of its
\* own draws and the fields of its own body
CarriesOwn(r) ==
    /\ \A n \in 1 .. Len(r.events) :
          /\ r.events[n].trace_id = r.headers.xTraceId
          /\ r.events[n].transaction_id = r.headers.xTransactionId
    /\ Cardinality(PaymentIdsOf(r)) <= 1
    /\ Cardinality(RefundIdsOf(r)) <= 1
    /\ r.route = "status" => PaymentIdsOf(r) = {r.line.tail}
    /\ (r.route = "refunds" /\ r.draws > 0) => PaymentIdsOf(r) = {r.body.paymentId}
    /\ (Answered(r) /\ OwnStatus(r) # 0) =>
          /\ r.resp.status = OwnStatus(r)
          /\ (r.resp.status = 200 /\ r.route \in {"payments", "refunds"}) =>
                r.resp.body.amount = r.body.amount
          /\ (r.resp.status = 200 /\ r.route = "payments") =>
                r.resp.body.currency = r.body.currency
          /\ r.route = "status" => r.resp.body.status = Str(r.randomStatus)

\* the ids generated for request i are those of no other request
OwnIdsAreFresh(i) ==
    \A j \in 1 .. Len(reqs) :
        j # i =>
          /\ reqs[i].transactionId # reqs[j].transactionId
          /\ (reqs[i].route = "payments" /\ reqs[j].route = "payments")
                => PaymentIdsOf(reqs[i]) \cap PaymentIdsOf(reqs[j]) = {}
          /\ RefundIdsOf(reqs[i]) \cap RefundIdsOf(reqs[j]) = {}

\* the step changes at most one request and takes nothing back from it: its
\* ids, its draws and what it has logged stay
OneRequestPerStep ==
    /\ Len(reqs') >= Len(reqs)
    /\ \A i \in 1 .. Len(reqs) :
          /\ reqs'[i].headers = reqs[i].headers
          /\ reqs'[i].body = reqs[i].body
          /\ Len(reqs'[i].events) >= Len(reqs[i].events)
          /\ SubSeq(reqs'[i].events, 1, Len(reqs[i].events)) = reqs[i].events
          /\ reqs'[i] # reqs[i] =>
                /\ Len(reqs') = Len(reqs)
                /\ \A j \in 1 .. Len(reqs) : j # i => reqs'[j] = reqs[j]

\* C16: requests are independent.  A request is received and a timer fires
\* whatever the state of the other requests (a later request may be
\* answered before an earlier one); a step changes one request only; and
\* what a request logs and answers carries its own trace id, transaction
\* id, payment or refund id, outcome and echoed fields, in every
\* interleaving.
C16_Independent ==
    /\ [](\A i \in 1 .. Len(reqs) : CarriesOwn(reqs[i]) /\ OwnIdsAreFresh(i))
    /\ [][OneRequestPerStep]_vars

\* C16 witness: a payment is still waiting for its timer while a refund
\* received after it has been answered, and both were given ids
C16_Witness ==
    /\ Len(reqs) = 2
    /\ reqs[1].route = "payments" /\ reqs[1].stage = "waiting"
    /\ reqs[2].route = "refunds" /\ Answered(reqs[2]) /\ reqs[2].resp.status = 200
    /\ reqs[2].resp.body.payment_id = Str("pmt_x")
    /\ reqs[1].traceId # reqs[2].traceId

\* the one outcome event of payment request r reports its status at the
\* level of that status, and was logged before 'Request completed', the
\* event res.end logs right before it sends the response
OutcomeThenResponse(r) ==
    /\ Cardinality(OutcomeEvents(r)) = 1
    /\ LET n == CHOOSE n \in OutcomeEvents(r) : TRUE
           e == r.events[n]
       IN  /\ e.status_code = r.resp.status
           /\ e.level = (IF r.resp.status = 200 THEN "info" ELSE "error")
           /\ n < Len(r.events)
           /\ r.events[Len(r.events)].event_type = "response"

\* the outcome event of r has a payment_id and a processing_time
OutcomeHasIdAndTime(r) ==
    LET e == r.events[CHOOSE n \in OutcomeEvents(r) : TRUE]
    IN  Has(e.payment_id) /\ e.processing_time > 0

\* C17 (as claimed): a payment request that was answered, the missing-fields
\* 400 included, has exactly one outcome event, logged before the response
\* at the level of its outcome, with payment_id and processing_time.
C17_OutcomeEventComplete ==
    \A i \in 1 .. Len(reqs) :
        (reqs[i].route = "payments" /\ Answered(reqs[i])) =>
            OutcomeThenResponse(reqs[i]) /\ OutcomeHasIdAndTime(reqs[i])

\* C17 (amended): a payment request has no outcome event while it waits
\* and exactly one once it is answered, logged before the response, at
\* error level for 504, 400 and 500 and at info level for 200.  After the
\* delay (timeout, validation error, processor failure, success) the event
\* has the request's payment_id and processing_time; the event of the
\* missing-fields 400 has neither: none has been computed at that point.
C17_OutcomeEventPerPayment ==
    \A i \in 1 .. Len(reqs) :
        LET r == reqs[i]
            e == r.events[CHOOSE n \in OutcomeEvents(r) : TRUE]
        IN  r.route = "payments" =>
              IF ~Answered(r)
              THEN OutcomeEvents(r) = {}
              ELSE /\ OutcomeThenResponse(r)
                   /\ IF r.draws = 0
                      THEN /\ r.resp.status = 400
                           /\ e.payment_id = Undefined /\ e.processing_time = 0
                      ELSE /\ e.payment_id = r.resp.body.payment_id
                           /\ Has(e.payment_id)
                           /\ e.processing_time = r.processingTime
                           /\ e.processing_time > 0

\* C17 witness: a payment that timed out and one that lacked a field have
\* both been answered
C17_Witness ==
    /\ \E i \in 1 .. Len(reqs) :
          reqs[i].route = "payments" /\ reqs[i].resp.status = 504
    /\ \E i \in 1 .. Len(reqs) :
          /\ reqs[i].route = "payments" /\ reqs[i].resp.status = 400
          /\ reqs[i].draws = 0

\* request r passed the validation of its route: the handler made its draws
Delayed(r) == r.route \in {"payments", "refunds", "status"} /\ r.draws > 0

\* the 'Request completed' events of r: one for every call of res.end
ResponsesSent(r) ==
    Cardinality({n \in 1 .. Len(r.events) : r.events[n].event_type = "response"})

\* a request that passed the validation waits with one timer set for its
\* delay and no response, or is answered with no timer left and one response
TimerOrResponse(r) ==
    Delayed(r) =>
        /\ r.processingTime > 0
        /\ \/ r.stage = "waiting" /\ r.timers = 1 /\ ResponsesSent(r) = 0
              /\ r.resp = NoResponse
           \/ Answered(r) /\ r.timers = 0 /\ ResponsesSent(r) = 1
              /\ r.resp.status # 0

\* the step that receives a request which passes the validation does not
\* answer it; the step that answers it is the one in which its timer fires
AnsweredByTimer ==
    /\ Len(reqs') > Len(reqs) =>
          LET r == reqs'[Len(reqs')]
          IN  Delayed(r) => (~Answered(r) /\ r.timers = 1)
    /\ \A i \in 1 .. Len(reqs) :
          (Delayed(reqs[i]) /\ reqs'[i] # reqs[i]) =>
              /\ reqs[i].timers = 1 /\ ~Answered(reqs[i])
              /\ reqs'[i].timers = 0 /\ Answered(reqs'[i])

\* C18: a payment, refund or status request that passed the validation is
\* not answered by the step that receives it: it waits with one timer, set
\* for its delay; the step in which that timer fires sends its one
\* response; after that it is never changed again; and, the event loop
\* running every timer that is due, every such request is answered: at
\* any time there is a later time at which all those received so far are
\* (an answered request stays answered).
C18_OneDelayedResponse ==
    /\ [](\A i \in 1 .. Len(reqs) : TimerOrResponse(reqs[i]))
    /\ [][AnsweredByTimer]_vars
    /\ []<>(\A i \in 1 .. Len(reqs) : Delayed(reqs[i]) => Answered(reqs[i]))

\* C18 witness: a status lookup and a refund that both passed the validation
\* have been answered, the refund with a failure
C18_Witness ==
    /\ Len(reqs) = 2
    /\ reqs[1].route = "status" /\ Answered(reqs[1]) /\ ResponsesSent(reqs[1]) = 1
    /\ reqs[2].route = "refunds" /\ Delayed(reqs[2]) /\ reqs[2].resp.status = 500
    /\ reqs[2].timers = 0

\* the delays of route seen so far lie in lo .. hi, and once every draw was
\* tried they are all of lo .. hi
DelaysAre(route, lo, hi) ==
    LET range == delayRange[route]
    IN  /\ range.seen > 0 => (lo <= range.lo /\ range.hi <= hi)
        /\ drawsTried = DrawDen =>
              /\ range.lo = lo /\ range.hi = hi
              /\ range.skipped = 0 /\ range.seen = hi - lo + 1

\* C20 (as claimed): the delay of a payment takes every whole number of
\* milliseconds from 50 to 2000 and no other, that of a refund every one
\* from 100 to 1600, that of a status lookup every one from 10 to 300.
\* The code computes floor(random * 1950) + 50, floor(random * 1500) + 100
\* and floor(random * 290) + 10 with random < 1: the largest delays are
\* 1999, 1599 and 299.
C20_DelayRanges ==
    /\ DelaysAre("payments", 50, 2000)
    /\ DelaysAre("refunds", 100, 1600)
    /\ DelaysAre("status", 10, 300)

\* C15 (as claimed): an event that reports a status code of 400 or more
\* (the validation, failure and timeout events and 'Request completed') is
\* logged at error level, and every other event at info level.  The code
\* logs 'Request completed' with logger.info whatever the status, and only
\* sets a field named level in the logged object (lines 88-95).
C15_LevelsFollowStatus ==
    \A e \in AllEvents :
        e.level = (IF e.status_code >= 400 THEN "error" ELSE "info")

----------------------------------------------------------------------------
(* The generator and the service: properties of both *)

\* the step starts one invocation of the main-loop callback, or one
\* invocation's call returns and the invocation ends without another call
OneCallPerTick ==
    ticks' # ticks =>
        \/ \E t \in BagToSet(ticks') : ticks' = ticks (+) SetToBag({t})
        \/ \E t \in BagToSet(ticks) : ticks' = ticks (-) SetToBag({t})

\* the events of r that are logged at error level
ErrorEvents(r) == {n \in 1 .. Len(r.events) : r.events[n].level = "error"}

\* an answered request has no timer left, and a failed payment or refund
\* was reported by one error event
ReportedOnce(r) ==
    /\ r.timers <= 1
    /\ Answered(r) => r.timers = 0
    /\ (Answered(r) /\ r.route \in {"payments", "refunds"}) =>
          Cardinality(ErrorEvents(r)) = (IF r.resp.status >= 400 THEN 1 ELSE 0)

\* the step leaves every answered request as it is
AnsweredIsFinal ==
    \A i \in 1 .. Len(reqs) :
        Answered(reqs[i]) => (i <= Len(reqs') /\ reqs'[i] = reqs[i])

\* C13: nothing is retried.  An invocation of the main-loop callback has
\* issued exactly one HTTP request; when its call returns, with a 2xx, a 400,
\* 500, 504 or a transport error, the invocation ends and starts no further
\* request.  In the service a request has at most one timer, a failed
\* payment or refund is reported by one error event, and a request that was
\* answered is never run again.
C13_NoRetry ==
    /\ [](\A t \in BagToSet(ticks) : t.sent = 1)
    /\ [](\A i \in 1 .. Len(reqs) : ReportedOnce(reqs[i]))
    /\ [][OneCallPerTick /\ AnsweredIsFinal]_vars

\* C13 witness: a payment was answered 500 and stayed as it was while the
\* service received and answered another request
C13_Witness ==
    /\ Len(reqs) = 2
    /\ reqs[1].route = "payments" /\ reqs[1].resp.status = 500
    /\ Cardinality(ErrorEvents(reqs[1])) = 1
    /\ reqs[2].route = "refunds" /\ reqs[2].resp.status = 500

----------------------------------------------------------------------------
Init == GenInit /\ SvcInit

GenSpec == Init /\ [][GenNext]_vars

\* the generator with its clock and its once-per-minute health timer
GenTimersNext ==
    \/ GenNext
    \/ ClockPassesEnd
    \/ PeriodicHealthFires
    \/ PeriodicHealthReturns

GenTimersSpec == Init /\ [][GenTimersNext]_vars

\* the generator with its once-per-minute health timer (lines 219-221): the
\* timer's call is outstanding while at most one invocation of the main
\* callback is; with no such call the invocations overlap as in GenSpec
GenHealthNext ==
    \/ GenNext /\ (healthCalls = 0 \/ BagCardinality(ticks') <= 1)
    \/ BagCardinality(ticks) <= 1 /\ PeriodicHealthFires
    \/ PeriodicHealthReturns

GenHealthSpec == Init /\ [][GenHealthNext]_vars

SvcSpec == Init /\ [][SvcNext]_vars

\* the three delayed routes of the service while its process runs: the
\* event loop runs the callback of every timer that is due
SvcDelayedNext ==
    \/ ReceiveFrom(DelayedRequests)
    \/ \E i \in 1 .. Len(reqs) : TimerFires(i)

SvcFairSpec ==
    /\ Init /\ [][SvcDelayedNext]_vars
    /\ \A i \in 1 .. MaxReqs : WF_vars(i <= Len(reqs) /\ TimerFires(i))

\* the delay computations of the service, over every draw
DelaySpec == Init /\ [][TryDraw]_vars

\* the service over its lifetime, up to the SIGTERM that ends it
SvcLifeNext ==
    \/ SvcNext
    \/ Sigterm

SvcLifeSpec == Init /\ [][SvcLifeNext]_vars

\* The generator, up to its first MaxReqs payments that succeed, and the
\* service, up to its first MaxReqs requests, each run on its own: the two
\* share no variable, so a property of each holds of both run side by side.
ComponentsNext ==
    \/ (reqs = <<>> /\ issuedIds < MaxReqs /\ GenNext)
    \/ (mainPc = "serviceInfo" /\ SvcNext)

ComponentsSpec == Init /\ [][ComponentsNext]_vars

====
